---- MODULE Spec2Model ----
(***************************************************************************)
(* Model of docs/task_converter.py: the markdown task-specification        *)
(* compiler (extractors, input validation, prompt compiler, record         *)
(* assembler, output schema validator) and its two command-line modes.     *)
(*                                                                         *)
(* A markdown text is a non-empty sequence of lines joined by "\n" (a      *)
(* trailing newline is a final blank line).  A line is a record            *)
(*   [k |-> kind, n |-> number text, x |-> text]                           *)
(* of one of the shapes the regular expressions of the source tell apart:  *)
(*   h1    "# Task <n>: <x>"  (n # "")   or   "# <x>"  (n = "")            *)
(*   h2    "## <x>"                                                        *)
(*   text  "<x>"              a plain paragraph line                       *)
(*   blank ""                                                              *)
(*   req   "<n>. [ ] <x>"                                                  *)
(*   task  "- [ ] Validate `<x>`"                                          *)
(*   step  "   - [ ] <x>"     indented by three spaces                     *)
(*   item  "- [ ] <x>"        an unindented checkbox line                  *)
(***************************************************************************)
EXTENDS Integers, Sequences, FiniteSets, TLC

\* ------------------------------------------------------------------ bounds
MaxReqs == 2
MaxTasks == 2
MaxSteps == 2
MaxRecs == 2

\* ------------------------------------------------------------------- lines
Line(k, n, x) == [k |-> k, n |-> n, x |-> x]
H1(n, x) == Line("h1", n, x)
H2(x) == Line("h2", "", x)
TextLine(x) == Line("text", "", x)
Blank == Line("blank", "", "")
ReqLine(n, x) == Line("req", n, x)
TaskLine(m) == Line("task", "", m)
StepLine(x) == Line("step", "", x)
ItemLine(x) == Line("item", "", x)

NoFile == <<>>

Min(S) == CHOOSE a \in S : \A b \in S : a <= b

RECURSIVE Flatten(_)
Flatten(ss) == IF ss = <<>> THEN <<>> ELSE Head(ss) \o Flatten(Tail(ss))

\* --------------------------------------------------------------- documents
\* The documents the runs are given: every combination of a title line, an
\* Objective section, a Requirements section and a list of validation-task
\* blocks, each in the well-formed and the malformed variants below.
Numerals == <<"1", "2", "3", "4", "5">>
ReqTexts == <<"Must use real DB", "Must log", "Must clean up", "Must be fast", "Must be safe">>
StepTexts == <<"Connect", "Query", "Insert", "Delete", "Close">>
Modules == {"db.py", "/path/to/db.py"}
ObjectiveText == "Validate the DB layer."

TitleShapes == {"none", "task", "plain"}
ObjectiveShapes == {"none", "text", "empty", "blank1", "blank2", "lower"}
HeadingShapes == {"none", "exact", "upper"}

TitleLines(t) ==
    CASE t = "none" -> <<>>
      [] t = "task" -> <<H1("011", "DB Ops")>>
      [] t = "plain" -> <<H1("", "Notes")>>

ObjectiveLines(o) ==
    CASE o = "none" -> <<>>
      [] o = "text" -> <<H2("Objective"), TextLine(ObjectiveText)>>
      [] o = "empty" -> <<H2("Objective")>>
      [] o = "blank1" -> <<H2("Objective"), Blank>>
      [] o = "blank2" -> <<H2("Objective"), Blank, Blank>>
      [] o = "lower" -> <<H2("objective"), TextLine(ObjectiveText)>>

RequirementLines(h, r) ==
    CASE h = "none" -> <<>>
      [] h = "exact" -> <<H2("Requirements")>> \o [i \in 1..r |-> ReqLine(Numerals[i], ReqTexts[i])]
      [] h = "upper" -> <<H2("REQUIREMENTS")>> \o [i \in 1..r |-> ReqLine(Numerals[i], ReqTexts[i])]

BlockLines(b) == <<TaskLine(b.m)>> \o [i \in 1..b.s |-> StepLine(StepTexts[i])]

TaskSectionLines(bs) == <<H2("Tasks")>> \o Flatten([i \in 1..Len(bs) |-> BlockLines(bs[i])])

Blocks == [m : Modules, s : 0..MaxSteps]

BlockLists == UNION {[1..n -> Blocks] : n \in 0..MaxTasks}

Shapes ==
    {p \in [title : TitleShapes, obj : ObjectiveShapes, reqh : HeadingShapes,
            nreq : 0..MaxReqs, blocks : BlockLists] : p.reqh = "none" => p.nreq = 0}

\* A module named by a relative path that begins with path/to/.
RelativeModule == "path/to/db.py"

\* Well-formed documents with such a module.
PathShapes ==
    {[title |-> "task", obj |-> "text", reqh |-> "exact", nreq |-> 1, blocks |-> bs] :
        bs \in {<<[m |-> RelativeModule, s |-> 1]>>,
                <<[m |-> "db.py", s |-> 1], [m |-> RelativeModule, s |-> 1]>>}}

InputShapes == Shapes \cup PathShapes

\* The documents of the runs that also vary the paths, the permissions or the
\* number of calls: a numbered title, one requirement, any list of blocks, with
\* and without an Objective section.
SmallShapes ==
    {p \in Shapes : p.title = "task" /\ p.obj \in {"text", "none"}
                      /\ p.reqh = "exact" /\ p.nreq = 1}

\* The markdown text of a shape; the file ends with a newline.
Render(p) ==
    TitleLines(p.title) \o ObjectiveLines(p.obj) \o RequirementLines(p.reqh, p.nreq)
        \o TaskSectionLines(p.blocks) \o <<Blank>>

\* -------------------------------------------------------------- extractors
UntitledTask == [n |-> "", x |-> "Untitled Task"]

\* re.search(r'^#\s+(.+)$', md, re.MULTILINE): the first line "# ..."; a "##"
\* line has no whitespace after its first "#".
extract_title(md) ==
    LET hs == {i \in 1..Len(md) : md[i].k = "h1"}
    IN  IF hs = {} THEN UntitledTask ELSE [n |-> md[Min(hs)].n, x |-> md[Min(hs)].x]

\* str.strip() of a joined run of lines: blank lines at both ends go, and so
\* does the indentation of the first line left.
RECURSIVE StripLeft(_)
StripLeft(ls) ==
    IF ls # <<>> /\ Head(ls).k = "blank" THEN StripLeft(Tail(ls)) ELSE ls

RECURSIVE StripRight(_)
StripRight(ls) ==
    IF ls # <<>> /\ ls[Len(ls)].k = "blank" THEN StripRight(SubSeq(ls, 1, Len(ls) - 1)) ELSE ls

Strip(ls) ==
    LET s == StripRight(StripLeft(ls))
    IN  IF s # <<>> /\ Head(s).k = "step"
        THEN <<ItemLine(Head(s).x)>> \o Tail(s)
        ELSE s

\* The group of r'## <name>\n(.+?)(?=\n##|\Z)' (nonEmpty) or of
\* r'## <name>\n(.*?)(?=\n##|\Z)' (not nonEmpty) under re.DOTALL, as
\* <<matched, lines of the group>>.  The heading is matched exactly and must be
\* followed by a newline.  The lazy group ends at the first "\n##" it can end at:
\* before the first later "##" line, except that (.+?) must take at least one
\* character, so it cannot end at once before a "##" line that follows one blank
\* line, nor match nothing at the end of the text.
SectionGroup(md, name, nonEmpty) ==
    LET n == Len(md)
        restEmpty(i) == i + 1 = n /\ md[n].k = "blank"
        cands == {i \in 1..(n - 1) :
                    md[i].k = "h2" /\ md[i].x = name /\ ~(nonEmpty /\ restEmpty(i))}
    IN  IF cands = {} THEN <<FALSE, <<>>>>
        ELSE LET i == Min(cands)
                 ends == {j \in (i + 2)..n :
                            md[j].k = "h2" /\ ~(nonEmpty /\ j = i + 2 /\ md[i + 1].k = "blank")}
                 e == IF ends = {} THEN n + 1 ELSE Min(ends)
             IN  IF restEmpty(i) THEN <<TRUE, <<>>>> ELSE <<TRUE, SubSeq(md, i + 1, e - 1)>>

\* The objective is a sequence of lines, <<>> for the empty string.
extract_objective(md) ==
    LET g == SectionGroup(md, "Objective", TRUE)
    IN  IF g[1] THEN Strip(g[2]) ELSE <<>>

\* re.findall(r'\d+\.\s+\[\s?\]\s*(.+)', req_text): the text of every
\* "<n>. [ ] <x>" line of the section, in order.
extract_requirements(md) ==
    LET g == SectionGroup(md, "Requirements", FALSE)
        reqs == SelectSeq(g[2], LAMBDA l : l.k = "req")
    IN  IF g[1] THEN [i \in 1..Len(reqs) |-> reqs[i].x] ELSE <<>>

RECURSIVE BlankRun(_, _)
BlankRun(md, j) ==
    IF j <= Len(md) /\ md[j].k = "blank" THEN 1 + BlankRun(md, j + 1) ELSE 0

\* ((?:\s{3,}- \[ \].+\n?)*) from the start of line j: the line after the block.
\* \s{3,} takes the newlines of blank lines and the indentation of the next line,
\* so a step line may follow blank lines, and an unindented "- [ ] ..." line is
\* taken after three or more blank lines.
RECURSIVE BlockEnd(_, _)
BlockEnd(md, j) ==
    LET k == BlankRun(md, j)
        m == j + k
    IN  IF m <= Len(md) /\ (md[m].k = "step" \/ (md[m].k \in {"task", "item"} /\ k >= 3))
        THEN IF m < Len(md) THEN BlockEnd(md, m + 1) ELSE m + 1
        ELSE j

\* pattern.findall(md) from line i on: <<module, block>> pairs in document order.
\* The closing backquote of the task line must be followed by a newline.
RECURSIVE ScanTasks(_, _)
ScanTasks(md, i) ==
    IF i > Len(md) THEN <<>>
    ELSE IF md[i].k = "task" /\ i < Len(md)
         THEN LET e == BlockEnd(md, i + 1)
              IN  <<<<md[i].x, SubSeq(md, i + 1, e - 1)>>>> \o ScanTasks(md, e)
         ELSE ScanTasks(md, i + 1)

\* The pairs with a module named twice kept once.
RECURSIVE DropRepeated(_, _)
DropRepeated(vts, seen) ==
    IF vts = <<>> THEN <<>>
    ELSE IF Head(vts)[1] \in seen THEN DropRepeated(Tail(vts), seen)
    ELSE <<Head(vts)>> \o DropRepeated(Tail(vts), seen \cup {Head(vts)[1]})

extract_validation_tasks_once(md) == DropRepeated(ScanTasks(md, 1), {})

extract_validation_tasks(md) == ScanTasks(md, 1)

\* re.match(r'\s+- \[ \] (.+)', line) on each line of the block.
extract_steps(block) ==
    LET ss == SelectSeq(block, LAMBDA l : l.k = "step")
    IN  [i \in 1..Len(ss) |-> ss[i].x]

\* --------------------------------------------------------- prompt compiler
\* A prompt (a command) is the sequence of its non-blank lines, each
\*   [t |-> which line of the template, i |-> its number, s |-> the text
\*    substituted into it, o |-> the objective lines substituted into it].
PL(t, i, s, o) == [t |-> t, i |-> i, s |-> s, o |-> o]

\* The task id that never finds the number of the title.
TaskIdUnknown(title) == "unknown"

\* re.search(r'Task (\d+):', title)
TaskId(title) == IF title.n # "" THEN title.n ELSE "unknown"

\* The lines of the list: the items in the reverse of their order.
NumberedReversed(tag, items) ==
    [i \in 1..Len(items) |-> PL(tag, i, items[Len(items) + 1 - i], <<>>)]

\* for i, item in enumerate(items, 1): prompt += f"{i}. {item}\n"
Numbered(tag, items) == [i \in 1..Len(items) |-> PL(tag, i, items[i], <<>>)]

\* The prompt with its CONTEXT section written before the header lines.
build_validation_prompt_context_first(title, objective, module, steps, requirements) ==
    <<PL("setup", 0, "", <<>>),
      PL("CONTEXT", 0, "", <<>>),
      PL("objective", 0, "", objective),
      PL("real connections", 0, "", <<>>),
      PL("both outputs", 0, "", <<>>),
      PL("file located", 0, module, <<>>),
      PL("TASK TYPE", 0, "Validation", <<>>),
      PL("TASK ID", 0, TaskId(title), <<>>),
      PL("CURRENT SUBTASK", 0, module, <<>>),
      PL("REQUIREMENTS", 0, "", <<>>)>>
    \o Numbered("requirement", requirements)
    \o <<PL("VALIDATION STEPS", 0, module, <<>>)>>
    \o Numbered("step", steps)
    \o <<PL("INSTRUCTIONS", 0, "", <<>>),
         PL("change checkbox", 0, module, <<>>),
         PL("confirm", 0, "", <<>>),
         PL("COMPLETION SUMMARY", 0, "", <<>>),
         PL("begin", 0, module, <<>>)>>

build_validation_prompt(title, objective, module, steps, requirements) ==
    <<PL("setup", 0, "", <<>>),
      PL("TASK TYPE", 0, "Validation", <<>>),
      PL("TASK ID", 0, TaskId(title), <<>>),
      PL("CURRENT SUBTASK", 0, module, <<>>),
      PL("CONTEXT", 0, "", <<>>),
      PL("objective", 0, "", objective),
      PL("real connections", 0, "", <<>>),
      PL("both outputs", 0, "", <<>>),
      PL("file located", 0, module, <<>>),
      PL("REQUIREMENTS", 0, "", <<>>)>>
    \o Numbered("requirement", requirements)
    \o <<PL("VALIDATION STEPS", 0, module, <<>>)>>
    \o Numbered("step", steps)
    \o <<PL("INSTRUCTIONS", 0, "", <<>>),
         PL("change checkbox", 0, module, <<>>),
         PL("confirm", 0, "", <<>>),
         PL("COMPLETION SUMMARY", 0, "", <<>>),
         PL("begin", 0, module, <<>>)>>

\* ------------------------------------------------------- record assembler
\* A value of the task list.  shape is the Python type of the element; for a
\* dict, keys and akeys are the keys of the task and of its arguments, and
\* args_is_dict tells whether task['arguments'] is a dict.  dsp is the value
\* of dangerously_skip_permissions as Python prints it.
TimeoutMs == 300000

Task(shape, keys, tool, args_is_dict, akeys, command, dsp, timeout_ms) ==
    [shape |-> shape, keys |-> keys, tool |-> tool, args_is_dict |-> args_is_dict,
     akeys |-> akeys, command |-> command, dsp |-> dsp, timeout_ms |-> timeout_ms]

\* The record with dangerously_skip_permissions False.
McpTaskNoSkip(prompt) ==
    Task("dict", {"tool", "arguments"}, "claude_code", TRUE,
         {"command", "dangerously_skip_permissions", "timeout_ms"}, prompt, "False", TimeoutMs)

McpTask(prompt) ==
    Task("dict", {"tool", "arguments"}, "claude_code", TRUE,
         {"command", "dangerously_skip_permissions", "timeout_ms"}, prompt, "True", TimeoutMs)

\* The records of the prompts, the last prompt first.
format_tasks_for_mcp_reversed(validation_prompts) ==
    [i \in 1..Len(validation_prompts) |->
        McpTask(validation_prompts[Len(validation_prompts) + 1 - i])]

format_tasks_for_mcp(validation_prompts) ==
    [i \in 1..Len(validation_prompts) |-> McpTask(validation_prompts[i])]

\* ------------------------------------------------ output schema validator
PlaceholderTexts == {"/path/to/db.py", "cd /path/to/project"}

\* "<marker>" in command, for the markers validate_mcp_format looks for.
LineContains(l, marker) ==
    CASE marker = "cd /home/graham/workspace/experiments/arangodb/" -> l.t = "setup"
      [] marker = "source .venv/bin/activate" -> l.t = "setup"
      [] marker = "TASK TYPE:" -> l.t = "TASK TYPE"
      [] marker = "TASK ID:" -> l.t = "TASK ID"
      [] marker = "CURRENT SUBTASK:" -> l.t = "CURRENT SUBTASK"
      [] marker = "/path/to/" ->
            \/ l.s \in PlaceholderTexts
            \/ \E j \in 1..Len(l.o) : l.o[j].x \in PlaceholderTexts
            \/ l.t = "file located" /\ l.s = RelativeModule

Contains(command, marker) == \E j \in 1..Len(command) : LineContains(command[j], marker)

\* 'tool' not in task, by the type of task: a TypeError for a value that is no
\* container, a membership or substring test for a list or a string.
ToolNotIn(task) ==
    CASE task.shape = "dict" -> IF "tool" \in task.keys THEN "False" ELSE "True"
      [] task.shape \in {"null", "number"} -> "TypeError"
      [] task.shape \in {"str", "list"} -> "True"
      [] task.shape \in {"str_tool", "list_tool"} -> "False"

\* The value passes for any truthy value.
IsTruthy(dsp) == dsp \in {"True", "1", "'true'"}

\* arguments['dangerously_skip_permissions'] is True
IsTrue(dsp) == dsp = "True"

SoftMarkers ==
    <<"cd /home/graham/workspace/experiments/arangodb/", "source .venv/bin/activate",
      "TASK TYPE:", "TASK ID:", "CURRENT SUBTASK:">>

CommandWarnings(i, command) ==
    LET missing == SelectSeq(SoftMarkers, LAMBDA mk : ~Contains(command, mk))
    IN  [j \in 1..Len(missing) |-> <<"Warning", i, missing[j]>>]

\* One pass of the loop body for task number i: <<verdict, printed lines>>, the
\* verdict "next" when the loop goes on, "False" on a return False, "TypeError"
\* when the body raises.
CheckTask(i, task) ==
    LET tni == ToolNotIn(task)
    IN  IF tni = "TypeError" THEN <<"TypeError", <<>>>>
        ELSE IF tni = "True" THEN <<"False", <<<<"Error", i, "missing tool">>>>>>
        ELSE IF task.shape # "dict" THEN <<"TypeError", <<>>>>
        ELSE IF task.tool # "claude_code" THEN <<"False", <<<<"Error", i, "incorrect tool">>>>>>
        ELSE IF "arguments" \notin task.keys
             THEN <<"False", <<<<"Error", i, "missing arguments">>>>>>
        ELSE IF ~task.args_is_dict
             THEN <<"False", <<<<"Error", i, "invalid arguments type">>>>>>
        ELSE IF "command" \notin task.akeys
             THEN <<"False", <<<<"Error", i, "missing command">>>>>>
        ELSE LET w == CommandWarnings(i, task.command)
             IN  IF Contains(task.command, "/path/to/")
                 THEN <<"False", w \o <<<<"Error", i, "ambiguous path">>>>>>
                 ELSE IF "dangerously_skip_permissions" \notin task.akeys
                 THEN <<"False", w \o <<<<"Error", i, "missing dangerously_skip_permissions">>>>>>
                 ELSE IF ~IsTrue(task.dsp)
                 THEN <<"False", w \o <<<<"Error", i, "incorrect dangerously_skip_permissions">>>>>>
                 ELSE IF "timeout_ms" \notin task.akeys
                 THEN <<"next", w \o <<<<"Warning", i, "timeout_ms">>>>>>
                 ELSE <<"next", w>>

RECURSIVE ValidateFrom(_, _)
ValidateFrom(tasks_data, i) ==
    IF i > Len(tasks_data) THEN <<"True", <<>>>>
    ELSE LET c == CheckTask(i, tasks_data[i])
         IN  IF c[1] # "next" THEN c
             ELSE LET r == ValidateFrom(tasks_data, i + 1) IN <<r[1], c[2] \o r[2]>>

\* <<"True" | "False" | "TypeError", printed lines>>
validate_mcp_format(is_list, tasks_data) ==
    IF ~is_list THEN <<"False", <<<<"Error", 0, "not a list">>>>>>
    ELSE IF tasks_data = <<>> THEN <<"True", <<<<"Warning", 0, "empty tasks list">>>>>>
    ELSE ValidateFrom(tasks_data, 1)

\* ------------------------------------------------------- input validation
\* The text of each validation error and of the composite error, as words.
TitleError == <<"Missing", "required", "title", "Format", "#", "Task", "NNN", "Title">>
ObjectiveError == <<"Missing", "required", "Objective", "section", "Format", "##", "Objective", "Description">>
RequirementsError ==
    <<"Missing", "or", "empty", "Requirements", "section", "Format", "##", "Requirements", "Requirement">>
NoTasksError == <<"No", "validation", "tasks", "found", "Format", "Validate", "module.py", "with", "indented", "steps">>

RECURSIVE JoinComma(_)
JoinComma(ms) ==
    IF Len(ms) <= 1 THEN ms ELSE <<Head(ms), ",">> \o JoinComma(Tail(ms))

EmptyTasksError(empty_tasks) ==
    <<"Tasks", "without", "steps", ":">> \o JoinComma(empty_tasks)
        \o <<".", "Each", "task", "needs", "indented", "steps">>

ErrorHeader == <<"Markdown", "format", "validation", "failed", ":">>
FormatExample ==
    <<"Required", "markdown", "format", ":", "#", "Task", "NNN", "Title", "##", "Objective",
      "Clear", "description", "##", "Requirements", "First", "requirement", "##", "Task",
      "Section", "Validate", "file.py", "Step", "1", "Step", "2">>

\* Only the first of the validation tasks that have no step.
EmptyTasksFirst(validation_tasks) ==
    LET es == SelectSeq(validation_tasks, LAMBDA vt : SelectSeq(vt[2], LAMBDA l : l.k = "step") = <<>>)
    IN  IF es = <<>> THEN <<>> ELSE <<es[1][1]>>

\* The modules of the validation tasks that have no step, in order.
EmptyTasks(validation_tasks) ==
    LET es == SelectSeq(validation_tasks, LAMBDA vt : extract_steps(vt[2]) = <<>>)
    IN  [i \in 1..Len(es) |-> es[i][1]]

\* The checks stopped at the first that fails.
ValidationErrorsFirst(title, objective, requirements, validation_tasks) ==
    IF title = UntitledTask THEN <<TitleError>>
    ELSE IF objective = <<>> THEN <<ObjectiveError>>
    ELSE IF requirements = <<>> THEN <<RequirementsError>>
    ELSE IF validation_tasks = <<>> THEN <<NoTasksError>>
    ELSE IF EmptyTasks(validation_tasks) # <<>>
         THEN <<EmptyTasksError(EmptyTasks(validation_tasks))>>
    ELSE <<>>

\* The list validation_errors after all the checks of process_markdown.
ValidationErrors(title, objective, requirements, validation_tasks) ==
    (IF title = UntitledTask THEN <<TitleError>> ELSE <<>>)
    \o (IF objective = <<>> THEN <<ObjectiveError>> ELSE <<>>)
    \o (IF requirements = <<>> THEN <<RequirementsError>> ELSE <<>>)
    \o (IF validation_tasks = <<>> THEN <<NoTasksError>> ELSE <<>>)
    \o (IF EmptyTasks(validation_tasks) # <<>>
        THEN <<EmptyTasksError(EmptyTasks(validation_tasks))>> ELSE <<>>)

\* The message of the ValueError raised for a non-empty validation_errors.
ErrorMsg(validation_errors) ==
    ErrorHeader
        \o Flatten([i \in 1..Len(validation_errors) |-> <<"-">> \o validation_errors[i]])
        \o FormatExample

\* ------------------------------------------------------------------- state
VARIABLES
    shape,              \* the shape the input document was written in
    callback,           \* the progress_callback process_markdown is given
    queue,              \* the documents the caller compiles after this one
    results,            \* the outcomes of the calls of process_markdown that ended
    fs_writable,        \* whether the output file can be opened for writing
    fs0,                \* the file system before the run: [input, outdir]
    argv,               \* sys.argv[1:]
    fs_input,           \* the lines of the input file, NoFile when it does not exist
    fs_outdir,          \* whether the directory of the output file exists
    fs_output,          \* the output file: [exists, data]
    pc,                 \* where the run is
    md, title, objective, requirements, validation_tasks, validation_errors,
    idx, prompts,       \* the locals of process_markdown
    tasks,              \* the task list process_markdown returned
    progress,           \* the notifications the progress callback was given
    stdout, stderr,     \* what was printed, line by line
    json_out,           \* the JSON document printed to stdout: [exists, data]
    raised,             \* the exception raised: [type, msg]
    exit_code,          \* the exit status, -1 while the program runs
    is_list, tasks_data, vpc, vi, vlog, vresult
                        \* a call of validate_mcp_format: its argument, its loop, its result

envVars == <<callback, queue, results, fs_writable, fs0>>
cliVars == <<envVars, shape, argv, fs_input, fs_outdir, fs_output, pc, md, title, objective,
             requirements, validation_tasks, validation_errors, idx, prompts, tasks,
             progress, stdout, stderr, json_out, raised, exit_code>>
valVars == <<is_list, tasks_data, vpc, vi, vlog, vresult>>
vars == <<cliVars, valVars>>

InputPath == "in.md"
OutputPath == "out/tasks.json"
JsonFlag == "--json-output"
Argvs == {<<InputPath, OutputPath>>, <<InputPath, InputPath>>, <<InputPath>>,
          <<JsonFlag, InputPath>>, <<JsonFlag>>}

NoData == [exists |-> FALSE, data |-> <<>>]
NoError == [type |-> "", msg |-> <<>>]
CanonicalShape ==
    [title |-> "task", obj |-> "text", reqh |-> "exact", nreq |-> 1,
     blocks |-> <<[m |-> "db.py", s |-> 2]>>]

json_output_mode == \E i \in 1..Len(argv) : argv[i] = JsonFlag
Args == SelectSeq(argv, LAMBDA a : a # JsonFlag)

\* len(sys.argv) != 2 after the flag is removed, len(sys.argv) < 3 without it.
UsageError == IF json_output_mode THEN Len(Args) # 1 ELSE Len(Args) < 2

\* input_file and output_file of main's file mode.
input_file == Args[1]
output_file_is_input == Args[1]
output_file == Args[2]

\* os.path.dirname(output_file)
dirname(path) == IF path = OutputPath THEN "out" ELSE ""

\* The process was started from the command line; otherwise process_markdown
\* is called as a function.
CommandLine == argv # <<>>

ValIdle ==
    /\ is_list = TRUE /\ tasks_data = <<>> /\ vpc = "idle" /\ vi = 0
    /\ vlog = <<>> /\ vresult = ""

CliStart ==
    /\ md = <<>> /\ title = UntitledTask /\ objective = <<>> /\ requirements = <<>>
    /\ validation_tasks = <<>> /\ validation_errors = <<>> /\ idx = 0 /\ prompts = <<>>
    /\ tasks = <<>> /\ progress = <<>> /\ stdout = <<>> /\ stderr = <<>>
    /\ json_out = NoData /\ raised = NoError /\ exit_code = -1
    /\ fs_output = NoData

\* A run of the command line on a document, or without its input file, or with
\* too few arguments.  The output path may be the input path, its directory may
\* be missing, and the output file may be one that cannot be written.
Init ==
    /\ argv \in Argvs
    /\ \/ shape \in InputShapes /\ fs_input = Render(shape) /\ ~UsageError
       \/ shape = CanonicalShape /\ fs_input = NoFile
       \/ shape = CanonicalShape /\ fs_input = Render(shape) /\ UsageError
    /\ fs_outdir \in BOOLEAN
    /\ (json_output_mode \/ UsageError \/ dirname(output_file) = "") => fs_outdir
    /\ fs_writable \in BOOLEAN
    /\ ~fs_writable => ~json_output_mode /\ ~UsageError /\ fs_outdir
    /\ (~fs_outdir \/ ~fs_writable
            \/ (~json_output_mode /\ ~UsageError /\ output_file = input_file))
            => shape \in SmallShapes
    /\ fs0 = [input |-> fs_input, outdir |-> fs_outdir]
    /\ callback = "print" /\ queue = <<>> /\ results = <<>>
    /\ pc = "main"
    /\ CliStart
    /\ ValIdle

\* The message the progress callback is given, with the task's number counted
\* from zero.
NotifyFromZero(k, i, n, m) ==
    [k |-> k, i |-> IF k = "Task" THEN i - 1 ELSE i, n |-> n, m |-> m]

\* The message the progress callback is given: its kind, and for "Task i/N:
\* Converting module" its i, N and module.
Notify(k, i, n, m) == [k |-> k, i |-> i, n |-> n, m |-> m]

\* print(...): to stderr in --json-output mode, to stdout otherwise.
Say(line) ==
    IF json_output_mode
    THEN stderr' = Append(stderr, line) /\ UNCHANGED stdout
    ELSE stdout' = Append(stdout, line) /\ UNCHANGED stderr

\* if progress_callback: progress_callback(...), for a callback that returns:
\* the command line's callbacks print the message.
Report(notes) ==
    IF callback = "none"
    THEN UNCHANGED <<progress, stdout, stderr>>
    ELSE /\ progress' = progress \o notes
         /\ IF json_output_mode
            THEN stderr' = stderr \o [i \in 1..Len(notes) |-> "progress"] /\ UNCHANGED stdout
            ELSE stdout' = stdout \o [i \in 1..Len(notes) |-> "progress"] /\ UNCHANGED stderr

\* Where an exception raised in process_markdown goes: to the except clause of
\* the command line, or to the caller of the function.
Raise == IF CommandLine THEN "except" ELSE "raised"

\* prompts, taken as the list an earlier call may have left behind.
prompts_kept(previous) == previous

\* prompts = []
new_prompts(previous) == <<>>

pmLocals == <<md, title, objective, requirements, validation_tasks, validation_errors,
              idx, prompts, tasks, progress>>

\* main(), to the call of process_markdown or of convert_tasks.
main ==
    /\ pc = "main"
    /\ IF json_output_mode
       THEN IF UsageError
            THEN /\ stderr' = Append(stderr, "usage")
                 /\ exit_code' = 1 /\ pc' = "exit"
            ELSE IF fs_input = NoFile
            THEN /\ stderr' = Append(stderr, "error: input file does not exist")
                 /\ exit_code' = 1 /\ pc' = "exit"
            ELSE /\ pc' = "load"
                 /\ UNCHANGED <<stderr, exit_code>>
       ELSE IF UsageError
            THEN /\ stderr' = stderr
                 /\ exit_code' = 1 /\ pc' = "exit"
            ELSE /\ pc' = "convert_tasks"
                 /\ UNCHANGED <<stderr, exit_code>>
    /\ stdout' = IF ~json_output_mode /\ UsageError
                 THEN stdout \o <<"usage", "usage">> ELSE stdout
    /\ UNCHANGED <<envVars, shape, argv, fs_input, fs_outdir, fs_output, pmLocals, json_out, raised>>
    /\ UNCHANGED valVars

\* convert_tasks, to the call of process_markdown.
convert_tasks ==
    /\ pc = "convert_tasks"
    /\ IF fs_input = NoFile
       THEN /\ stdout' = Append(stdout, "error: input file does not exist")
            /\ pc' = "failed"
            /\ UNCHANGED fs_outdir
       ELSE /\ fs_outdir' = IF dirname(output_file) # "" THEN TRUE ELSE fs_outdir
            /\ stdout' = Append(stdout, "processing")
            /\ pc' = "load"
    /\ UNCHANGED <<envVars, shape, argv, fs_input, fs_output, pmLocals, stderr, json_out, raised,
                   exit_code>>
    /\ UNCHANGED valVars

\* process_markdown: "Loading task file..." and load_file.
load_file ==
    /\ pc = "load"
    /\ IF callback = "raising"
       THEN /\ progress' = Append(progress, Notify("Loading", 0, 0, ""))
            /\ raised' = [type |-> "CallbackError", msg |-> <<>>]
            /\ pc' = Raise
            /\ UNCHANGED <<md, stdout, stderr>>
       ELSE /\ Report(<<Notify("Loading", 0, 0, "")>>)
            /\ md' = fs_input
            /\ pc' = "validate"
            /\ UNCHANGED raised
    /\ UNCHANGED <<envVars, shape, argv, fs_input, fs_outdir, fs_output, title, objective,
                   requirements, validation_tasks, validation_errors, idx, prompts, tasks,
                   json_out, exit_code>>
    /\ UNCHANGED valVars

\* process_markdown: the extraction and the input checks, to the raise or to
\* "Converting N validation tasks...".
validate_markdown ==
    /\ pc = "validate"
    /\ title' = extract_title(md)
    /\ objective' = extract_objective(md)
    /\ requirements' = extract_requirements(md)
    /\ validation_tasks' = extract_validation_tasks(md)
    /\ validation_errors' = ValidationErrors(title', objective', requirements', validation_tasks')
    /\ IF validation_errors' # <<>>
       THEN /\ raised' = [type |-> "ValueError", msg |-> ErrorMsg(validation_errors')]
            /\ pc' = Raise
            /\ Report(<<Notify("Validating", 0, 0, "")>>)
            /\ UNCHANGED <<idx, prompts>>
       ELSE /\ Report(<<Notify("Validating", 0, 0, ""),
                        Notify("Converting", 0, Len(validation_tasks'), "")>>)
            /\ prompts' = new_prompts(prompts)
            /\ idx' = 1
            /\ pc' = "convert"
            /\ UNCHANGED raised
    /\ UNCHANGED <<envVars, shape, argv, fs_input, fs_outdir, fs_output, md, tasks, json_out,
                   exit_code>>
    /\ UNCHANGED valVars

\* process_markdown: one pass of the loop over validation_tasks.
convert_task ==
    /\ pc = "convert"
    /\ idx <= Len(validation_tasks)
    /\ LET module == validation_tasks[idx][1]
           steps == extract_steps(validation_tasks[idx][2])
       IN  /\ Report(<<Notify("Task", idx, Len(validation_tasks), module)>>)
           /\ prompts' = IF steps = <<>> THEN prompts
                         ELSE Append(prompts,
                                build_validation_prompt(title, objective, module, steps, requirements))
    /\ idx' = idx + 1
    /\ UNCHANGED <<envVars, shape, argv, fs_input, fs_outdir, fs_output, pc, md, title, objective,
                   requirements, validation_tasks, validation_errors, tasks, json_out, raised,
                   exit_code>>
    /\ UNCHANGED valVars

\* process_markdown: "Conversion complete!" and the return.
conversion_complete ==
    /\ pc = "convert"
    /\ idx > Len(validation_tasks)
    /\ Report(<<Notify("Complete", 0, 0, "")>>)
    /\ tasks' = format_tasks_for_mcp(prompts)
    /\ pc' = IF ~CommandLine THEN "returned"
             ELSE IF json_output_mode THEN "json_output" ELSE "validate_output"
    /\ UNCHANGED <<envVars, shape, argv, fs_input, fs_outdir, fs_output, md, title, objective,
                   requirements, validation_tasks, validation_errors, idx, prompts, json_out,
                   raised, exit_code>>
    /\ UNCHANGED valVars

LogLines(log) == [i \in 1..Len(log) |-> IF log[i][1] = "Error" THEN "validator error"
                                          ELSE "validator warning"]

\* json.dump(tasks, f, indent=2), as the lines of the file by their first two
\* levels: the brackets of the list and one line per record.
json_dump(records) ==
    <<TextLine("[")>> \o [i \in 1..Len(records) |-> TextLine("{")] \o <<TextLine("]")>>

\* convert_tasks, after process_markdown returned: the output validation and the
\* write of the output file.
save_tasks ==
    /\ pc = "validate_output"
    /\ LET v == validate_mcp_format(TRUE, tasks)
       IN  CASE v[1] = "True" /\ fs_writable ->
                  /\ fs_output' = [exists |-> TRUE, data |-> tasks]
                  /\ fs_input' = IF output_file = input_file THEN json_dump(tasks)
                                 ELSE fs_input
                  /\ stdout' = stdout \o <<"validating">> \o LogLines(v[2])
                                 \o <<"validation successful", "converted", "saved">>
                  /\ pc' = "succeeded"
                  /\ UNCHANGED raised
             [] v[1] = "True" /\ ~fs_writable ->
                  /\ stdout' = stdout \o <<"validating">> \o LogLines(v[2])
                                 \o <<"validation successful">>
                  /\ raised' = [type |-> "OSError", msg |-> <<>>]
                  /\ pc' = "except"
                  /\ UNCHANGED <<fs_output, fs_input>>
             [] v[1] = "False" ->
                  /\ stdout' = stdout \o <<"validating">> \o LogLines(v[2]) \o <<"validation failed">>
                  /\ pc' = "failed"
                  /\ UNCHANGED <<fs_output, fs_input, raised>>
             [] v[1] = "TypeError" ->
                  /\ stdout' = stdout \o <<"validating">> \o LogLines(v[2])
                  /\ raised' = [type |-> "TypeError", msg |-> <<>>]
                  /\ pc' = "except"
                  /\ UNCHANGED <<fs_output, fs_input>>
    /\ UNCHANGED <<envVars, shape, argv, fs_outdir, pmLocals, stderr, json_out, exit_code>>
    /\ UNCHANGED valVars

\* main, --json-output mode, after process_markdown returned.
json_output ==
    /\ pc = "json_output"
    /\ json_out' = [exists |-> TRUE, data |-> tasks]
    /\ stdout' = Append(stdout, "json")
    /\ exit_code' = 0
    /\ pc' = "exit"
    /\ UNCHANGED <<envVars, shape, argv, fs_input, fs_outdir, fs_output, pmLocals, stderr, raised>>
    /\ UNCHANGED valVars

\* except Exception: of convert_tasks and of main's --json-output mode.
except ==
    /\ pc = "except"
    /\ Say("error during conversion")
    /\ IF json_output_mode
       THEN exit_code' = 1 /\ pc' = "exit"
       ELSE pc' = "failed" /\ UNCHANGED exit_code
    /\ UNCHANGED <<envVars, shape, argv, fs_input, fs_outdir, fs_output, pmLocals, json_out, raised>>
    /\ UNCHANGED valVars

\* The exit status that is 0 whatever convert_tasks returned.
exit_status_zero(success) == 0

\* if success: the process ends with status 0; else: sys.exit(1)
exit_status(success) == IF success THEN 0 ELSE 1

\* main, file mode, after convert_tasks returned.
main_exit ==
    /\ pc \in {"succeeded", "failed"}
    /\ stdout' = IF pc = "succeeded" THEN stdout \o <<"compatible", "how to use">>
                 ELSE Append(stdout, "task conversion failed")
    /\ exit_code' = exit_status(pc = "succeeded")
    /\ pc' = "exit"
    /\ UNCHANGED <<envVars, shape, argv, fs_input, fs_outdir, fs_output, pmLocals, stderr, json_out,
                   raised>>
    /\ UNCHANGED valVars

Next ==
    \/ main
    \/ convert_tasks
    \/ load_file
    \/ validate_markdown
    \/ convert_task
    \/ conversion_complete
    \/ save_tasks
    \/ json_output
    \/ except
    \/ main_exit

Spec == Init /\ [][Next]_vars

\* --------------------------------------- process_markdown called as a function
\* The callbacks a caller passes: none, or one that raises when it is called.
Callbacks == {"none", "raising"}

\* The documents compiled between two compilations of the same document: one
\* the compiler accepts and one it rejects.
OtherShapes ==
    {CanonicalShape, [CanonicalShape EXCEPT !.title = "plain", !.obj = "none"]}

\* What the caller goes on to compile after the first document: nothing, the
\* same document again, or another document and then the same document again.
Queues(p) ==
    IF p \in SmallShapes
    THEN {<<>>, <<p>>} \cup {<<q, p>> : q \in OtherShapes}
    ELSE {<<>>}

\* How a call of process_markdown ended: the list it returned or the exception
\* it raised.
Outcome ==
    IF pc = "returned"
    THEN [kind |-> "returned", records |-> tasks, error |-> NoError]
    ELSE [kind |-> "raised", records |-> <<>>, error |-> raised]

InitD ==
    /\ argv = <<>>
    /\ shape \in InputShapes /\ fs_input = Render(shape)
    /\ callback \in Callbacks
    /\ queue \in (IF callback = "none" THEN Queues(shape) ELSE {<<>>})
    /\ results = <<>>
    /\ fs_outdir = TRUE /\ fs_writable = TRUE
    /\ fs0 = [input |-> fs_input, outdir |-> fs_outdir]
    /\ pc = "load"
    /\ CliStart
    /\ ValIdle

\* The caller, after a call ended: the next call of process_markdown, on the
\* next document.  Nothing of the process is reset between the calls.
call_again ==
    /\ pc \in {"returned", "raised"}
    /\ queue # <<>>
    /\ results' = Append(results, [doc |-> shape, outcome |-> Outcome])
    /\ shape' = Head(queue)
    /\ queue' = Tail(queue)
    /\ fs_input' = Render(shape')
    /\ fs0' = [input |-> fs_input', outdir |-> fs_outdir]
    /\ raised' = NoError
    /\ pc' = "load"
    /\ UNCHANGED <<callback, fs_writable, argv, fs_outdir, fs_output, pmLocals, stdout,
                   stderr, json_out, exit_code>>
    /\ UNCHANGED valVars

NextD ==
    \/ load_file
    \/ validate_markdown
    \/ convert_task
    \/ conversion_complete
    \/ call_again

SpecD == InitD /\ [][NextD]_vars

\* ------------------------------------- validate_mcp_format on any task list
\* The task lists the validator is called on: the record the assembler builds,
\* and records that differ from it in one key, one value, the command's lines, or
\* in not being a dict at all.
GoodPrompt ==
    build_validation_prompt([n |-> "011", x |-> "DB Ops"], <<TextLine(ObjectiveText)>>,
                            "db.py", <<"Connect">>, <<"Must use real DB">>)
GoodTask == McpTask(GoodPrompt)

Without(command, tag) == SelectSeq(command, LAMBDA l : l.t # tag)
Instead(command, tag, new) ==
    [j \in 1..Len(command) |-> IF command[j].t = tag THEN PL(new, 0, "", <<>>) ELSE command[j]]

HardTasks ==
    {[GoodTask EXCEPT !.keys = {"arguments"}],
     [GoodTask EXCEPT !.tool = "other"],
     [GoodTask EXCEPT !.keys = {"tool"}],
     [GoodTask EXCEPT !.args_is_dict = FALSE],
     [GoodTask EXCEPT !.akeys = @ \ {"command"}],
     [GoodTask EXCEPT !.command = <<PL("other", 0, "cd /path/to/project", <<>>)>> \o Tail(@)],
     [GoodTask EXCEPT !.akeys = @ \ {"dangerously_skip_permissions"}],
     [GoodTask EXCEPT !.dsp = "False"],
     [GoodTask EXCEPT !.dsp = "1"],
     [GoodTask EXCEPT !.dsp = "'true'"]}

SoftTasks ==
    {[GoodTask EXCEPT !.command = Without(@, "setup")],
     [GoodTask EXCEPT !.command = Instead(@, "setup", "cd")],
     [GoodTask EXCEPT !.command = Instead(@, "setup", "activate")],
     [GoodTask EXCEPT !.command = Without(@, "TASK TYPE")],
     [GoodTask EXCEPT !.command = Without(@, "TASK ID")],
     [GoodTask EXCEPT !.command = Without(@, "CURRENT SUBTASK")],
     [GoodTask EXCEPT !.command = <<>>],
     [GoodTask EXCEPT !.akeys = @ \ {"timeout_ms"}]}

NonDictTasks ==
    {[GoodTask EXCEPT !.shape = sh] : sh \in {"null", "number", "str", "list", "str_tool", "list_tool"}}

DictTasks == {GoodTask} \cup HardTasks \cup SoftTasks
AnyTasks == DictTasks \cup NonDictTasks

TaskLists == UNION {[1..n -> AnyTasks] : n \in 0..MaxRecs}

CliIdle ==
    /\ shape = CanonicalShape /\ argv = <<>> /\ fs_input = NoFile /\ fs_outdir = TRUE
    /\ fs_writable = TRUE /\ fs0 = [input |-> NoFile, outdir |-> TRUE]
    /\ callback = "none" /\ queue = <<>> /\ results = <<>>
    /\ pc = "idle"
    /\ CliStart

InitV ==
    /\ CliIdle
    /\ \/ is_list = TRUE /\ tasks_data \in TaskLists
       \/ is_list = FALSE /\ tasks_data = <<>>
    /\ vpc = "start" /\ vi = 0 /\ vlog = <<>> /\ vresult = ""

\* validate_mcp_format, before the loop.
validate_start ==
    /\ vpc = "start"
    /\ IF ~is_list
       THEN /\ vlog' = <<<<"Error", 0, "not a list">>>>
            /\ vresult' = "False" /\ vpc' = "done" /\ UNCHANGED vi
       ELSE IF tasks_data = <<>>
       THEN /\ vlog' = <<<<"Warning", 0, "empty tasks list">>>>
            /\ vresult' = "True" /\ vpc' = "done" /\ UNCHANGED vi
       ELSE /\ vpc' = "loop" /\ vi' = 1 /\ UNCHANGED <<vlog, vresult>>
    /\ UNCHANGED <<is_list, tasks_data>>
    /\ UNCHANGED cliVars

\* validate_mcp_format, one pass of the loop.
validate_task ==
    /\ vpc = "loop"
    /\ vi <= Len(tasks_data)
    /\ LET c == CheckTask(vi, tasks_data[vi])
       IN  /\ vlog' = vlog \o c[2]
           /\ IF c[1] = "next"
              THEN vi' = vi + 1 /\ UNCHANGED <<vpc, vresult>>
              ELSE vresult' = c[1] /\ vpc' = "done" /\ UNCHANGED vi
    /\ UNCHANGED <<is_list, tasks_data>>
    /\ UNCHANGED cliVars

\* validate_mcp_format, the return True after the loop.
validate_end ==
    /\ vpc = "loop"
    /\ vi > Len(tasks_data)
    /\ vresult' = "True" /\ vpc' = "done"
    /\ UNCHANGED <<is_list, tasks_data, vi, vlog>>
    /\ UNCHANGED cliVars

NextV ==
    \/ validate_start
    \/ validate_task
    \/ validate_end

SpecV == InitV /\ [][NextV]_vars

\* ------------------------------------------------------------- properties
\* process_markdown has run its input checks / has raised / has returned.
Validated == Len(progress) >= 2
Rejected == raised.type = "ValueError"
Returned == progress # <<>> /\ progress[Len(progress)].k = "Complete"

Valid(records) == validate_mcp_format(TRUE, records)[1] = "True"

\* The lines of a command made from the template line `tag`.
LinesOf(command, tag) == SelectSeq(command, LAMBDA l : l.t = tag)

\* C1: in both modes, records are written to the output file or printed to
\* stdout only when the whole record sequence passes the output validation.
C1_NoPartialSuccess ==
    /\ fs_output.exists => Valid(fs_output.data)
    /\ json_out.exists => Valid(json_out.data)

\* C2: process_markdown returns records only for a document whose title is
\* "# Task <number>: <text>".
C2_TitlePattern == Returned => shape.title = "task"

\* C3: a document whose Objective heading is followed by no objective text
\* before the next "##" heading is rejected with the Objective error, and no
\* compiled prompt carries a "##" heading in its objective.
C3_EmptyObjectiveRejected ==
    /\ (Validated /\ shape.obj \in {"empty", "blank1", "blank2"}) =>
            (Rejected /\ \E i \in 1..Len(validation_errors) : validation_errors[i] = ObjectiveError)
    /\ \A i \in 1..Len(prompts) :
            \A l \in {prompts[i][j] : j \in 1..Len(prompts[i])} :
                \A j \in 1..Len(l.o) : l.o[j].k # "h2"

\* The input checks of process_markdown that fail on the extracted values.
FailedChecks ==
    {c \in {"title", "objective", "requirements", "tasks", "steps"} :
        \/ c = "title" /\ title = UntitledTask
        \/ c = "objective" /\ objective = <<>>
        \/ c = "requirements" /\ requirements = <<>>
        \/ c = "tasks" /\ validation_tasks = <<>>
        \/ c = "steps" /\ \E i \in 1..Len(validation_tasks) :
                              \A j \in 1..Len(validation_tasks[i][2]) :
                                  validation_tasks[i][2][j].k # "step"}

MessageOf(c) ==
    CASE c = "title" -> <<"Missing", "required", "title">>
      [] c = "objective" -> <<"Missing", "required", "Objective">>
      [] c = "requirements" -> <<"Missing", "or", "empty">>
      [] c = "tasks" -> <<"No", "validation", "tasks">>
      [] c = "steps" -> <<"Tasks", "without", "steps">>

RECURSIVE Count(_, _)
Count(ws, w) == IF ws = <<>> THEN 0 ELSE (IF Head(ws) = w THEN 1 ELSE 0) + Count(Tail(ws), w)

\* C4: when at least one input check fails, process_markdown raises one error
\* whose text has one message for every failed check, then the expected-format
\* example, and no record is made; when none fails it raises nothing (the one
\* exception of such a run is the output file that cannot be written).
C4_ErrorAggregation ==
    Validated =>
        IF FailedChecks = {} THEN ~Rejected /\ raised.type \in {"", "OSError"}
        ELSE /\ Rejected
             /\ Len(validation_errors) = Cardinality(FailedChecks)
             /\ \A c \in FailedChecks : \E i \in 1..Len(validation_errors) :
                    SubSeq(validation_errors[i], 1, 3) = MessageOf(c)
             /\ Count(raised.msg, "-") = Cardinality(FailedChecks)
             /\ SubSeq(raised.msg, Len(raised.msg) - Len(FormatExample) + 1, Len(raised.msg))
                    = FormatExample
             /\ prompts = <<>> /\ tasks = <<>> /\ ~Returned
             /\ ~fs_output.exists /\ ~json_out.exists

\* C4 witness: a rejected document that fails four checks at once.
C4_Witness == Rejected /\ Cardinality(FailedChecks) = 4 /\ pc = "exit"

\* C5: process_markdown returns exactly one record per validation-task block of
\* the document, also when two blocks name the same module.
C5_Completeness ==
    Returned =>
        /\ Len(tasks) = Len(shape.blocks)
        /\ Len(tasks) = Len(validation_tasks)

\* C5 witness: two blocks naming the same module gave two records.
C5_Witness ==
    /\ Returned /\ Len(shape.blocks) = 2 /\ shape.blocks[1].m = shape.blocks[2].m
    /\ Len(tasks) = 2

\* C6: the i-th record is compiled from the i-th block, its requirements are
\* numbered 1..R in source order and its steps 1..S in source order.
C6_OrderPreserved ==
    Returned =>
        /\ Len(tasks) = Len(shape.blocks)
        /\ \A i \in 1..Len(tasks) :
            LET c == tasks[i].command
                b == shape.blocks[i]
            IN  /\ LinesOf(c, "CURRENT SUBTASK") = <<PL("CURRENT SUBTASK", 0, b.m, <<>>)>>
                /\ LinesOf(c, "requirement")
                     = [j \in 1..shape.nreq |-> PL("requirement", j, ReqTexts[j], <<>>)]
                /\ LinesOf(c, "step") = [j \in 1..b.s |-> PL("step", j, StepTexts[j], <<>>)]

\* C6 witness: two blocks of different modules and step counts, two requirements.
C6_Witness ==
    /\ Returned /\ shape.nreq = 2 /\ Len(shape.blocks) = 2
    /\ shape.blocks[1].m # shape.blocks[2].m
    /\ shape.blocks[1].s = 2 /\ shape.blocks[2].s = 1
    /\ Len(tasks) = 2

\* The hard errors of a dict-shaped record.
HardError(t) ==
    \/ "tool" \notin t.keys
    \/ t.tool # "claude_code"
    \/ "arguments" \notin t.keys
    \/ ~t.args_is_dict
    \/ "command" \notin t.akeys
    \/ \E j \in 1..Len(t.command) :
            \/ t.command[j].s \in PlaceholderTexts
            \/ \E k \in 1..Len(t.command[j].o) : t.command[j].o[k].x \in PlaceholderTexts
    \/ "dangerously_skip_permissions" \notin t.akeys
    \/ t.dsp # "True"

SoftWarning(t) ==
    \/ "timeout_ms" \notin t.akeys
    \/ \E tag \in {"TASK TYPE", "TASK ID", "CURRENT SUBTASK"} : LinesOf(t.command, tag) = <<>>
    \/ \A j \in 1..Len(t.command) : t.command[j].t \notin {"setup", "cd"}
    \/ \A j \in 1..Len(t.command) : t.command[j].t \notin {"setup", "activate"}

AllDicts == \A i \in 1..Len(tasks_data) : tasks_data[i].shape = "dict"

C8_NonRecordIsFalse ==
    (vpc = "done" /\ is_list /\ ~AllDicts) => vresult = "False"

\* The modules of the blocks written with no step, in source order.
StepLess(blocks) ==
    LET bs == SelectSeq(blocks, LAMBDA b : b.s = 0)
    IN  [i \in 1..Len(bs) |-> bs[i].m]

StepsMessages == SelectSeq(validation_errors, LAMBDA e : SubSeq(e, 1, 3) = <<"Tasks", "without", "steps">>)

\* C9: a document without a "## Requirements" section is rejected with an error
\* that says Requirements, and a document with blocks that have no step is
\* rejected with one message naming all their modules in source order.
C9_MalformedRejected ==
    Validated =>
        /\ shape.reqh = "none" =>
              /\ Rejected
              /\ \E i \in 1..Len(validation_errors) :
                    /\ validation_errors[i] = RequirementsError
                    /\ Count(validation_errors[i], "Requirements") > 0
              /\ raised.msg = ErrorMsg(validation_errors)
        /\ StepLess(shape.blocks) # <<>> =>
              /\ Rejected
              /\ Len(StepsMessages) = 1
              /\ StepsMessages[1] = <<"Tasks", "without", "steps", ":">>
                                        \o JoinComma(StepLess(shape.blocks))
                                        \o <<".", "Each", "task", "needs", "indented", "steps">>
              /\ raised.msg = ErrorMsg(validation_errors)

\* C9 witness: no Requirements section, a block with steps and a block without.
C9_Witness ==
    /\ Rejected /\ shape.reqh = "none" /\ Len(shape.blocks) = 2
    /\ shape.blocks[1].s > 0 /\ shape.blocks[2].s = 0
    /\ pc = "exit"

\* The shape with its Objective and Requirements headings in the exact case.
ExactCase(p) ==
    [p EXCEPT !.obj = IF @ = "lower" THEN "text" ELSE @,
              !.reqh = IF @ = "upper" THEN "exact" ELSE @]

ErrorsOf(doc) ==
    ValidationErrors(extract_title(doc), extract_objective(doc), extract_requirements(doc),
                     extract_validation_tasks(doc))

\* C10: a document that differs from an accepted one only in the letter case of
\* the Objective or Requirements heading is accepted too.
C10_HeadingCaseInsensitive ==
    (Validated /\ ErrorsOf(Render(ExactCase(shape))) = <<>>) => ~Rejected

\* The template lines that open a section of the prompt, in the order of the
\* template.
Sections ==
    <<"setup", "TASK TYPE", "TASK ID", "CURRENT SUBTASK", "CONTEXT", "REQUIREMENTS",
      "VALIDATION STEPS", "INSTRUCTIONS", "COMPLETION SUMMARY">>

SectionsOf(command) ==
    LET heads == SelectSeq(command, LAMBDA l : \E j \in 1..Len(Sections) : l.t = Sections[j])
    IN  [j \in 1..Len(heads) |-> heads[j].t]

WellSectioned(command) ==
    /\ Contains(command, "TASK TYPE:")
    /\ Contains(command, "TASK ID:")
    /\ Contains(command, "CURRENT SUBTASK:")
    /\ SectionsOf(command) = Sections

\* C11: every command the compiler builds, returns, prints or writes contains the
\* tokens TASK TYPE:, TASK ID: and CURRENT SUBTASK:, and has its sections once
\* each in the order setup line, TASK TYPE, TASK ID, CURRENT SUBTASK, CONTEXT,
\* REQUIREMENTS, VALIDATION STEPS, INSTRUCTIONS, COMPLETION SUMMARY.
C11_HeaderAndSectionOrder ==
    /\ \A i \in 1..Len(prompts) : WellSectioned(prompts[i])
    /\ \A i \in 1..Len(tasks) : WellSectioned(tasks[i].command)
    /\ \A i \in 1..Len(json_out.data) : WellSectioned(json_out.data[i].command)
    /\ \A i \in 1..Len(fs_output.data) : WellSectioned(fs_output.data[i].command)

\* C11 witness: two commands printed, each with two requirements and two steps.
C11_Witness ==
    /\ json_out.exists /\ Len(json_out.data) = 2 /\ shape.nreq = 2
    /\ \A i \in 1..2 : Len(LinesOf(json_out.data[i].command, "step")) = 2

\* The record of the assembler for a command: a dict of tool and arguments,
\* the arguments a dict of command, dangerously_skip_permissions and timeout_ms.
IsMcpRecord(t, command) ==
    /\ t.shape = "dict" /\ t.keys = {"tool", "arguments"} /\ t.tool = "claude_code"
    /\ t.args_is_dict /\ t.akeys = {"command", "dangerously_skip_permissions", "timeout_ms"}
    /\ t.dsp = "True" /\ t.timeout_ms = 300000
    /\ t.command = command

\* C12: process_markdown returns one record per compiled prompt, in the order of
\* the prompts and with nothing left out, valid or not; each record has tool
\* claude_code, dangerously_skip_permissions true, timeout_ms 300000 and, as its
\* command, the prompt at its position; the records printed or written are those.
C12_RecordPerPrompt ==
    /\ Returned =>
          /\ Len(tasks) = Len(prompts)
          /\ \A i \in 1..Len(tasks) : IsMcpRecord(tasks[i], prompts[i])
    /\ ~Returned => tasks = <<>>
    /\ json_out.exists => json_out.data = tasks
    /\ fs_output.exists => fs_output.data = tasks

\* C12 witness: two different prompts returned, the first of them one the
\* output validation rejects.
C12_Witness ==
    /\ Returned /\ Len(tasks) = 2 /\ prompts[1] # prompts[2]
    /\ ~Valid(<<tasks[1]>>) /\ Valid(<<tasks[2]>>)

\* The id the title of the document was written with.
IdOf(p) == IF p.title = "task" THEN "011" ELSE "unknown"

\* C13: in every returned record the TASK ID line is db-validation-<id>, <id>
\* being the digits of "Task <number>:" in the document's title and "unknown"
\* for a title without them, so all records of a document carry one TASK ID;
\* the CURRENT SUBTASK line is "Validate <module>" for the module of the block
\* the record was compiled from.
C13_TaskIdAndSubtask ==
    Returned =>
        /\ Len(tasks) = Len(shape.blocks)
        /\ \A i \in 1..Len(tasks) :
              /\ LinesOf(tasks[i].command, "TASK ID") = <<PL("TASK ID", 0, IdOf(shape), <<>>)>>
              /\ LinesOf(tasks[i].command, "CURRENT SUBTASK")
                    = <<PL("CURRENT SUBTASK", 0, shape.blocks[i].m, <<>>)>>
        /\ \A i, j \in 1..Len(tasks) :
              LinesOf(tasks[i].command, "TASK ID") = LinesOf(tasks[j].command, "TASK ID")

\* C13 witness: two records of a document whose title has a number, for two
\* different modules.
C13_Witness ==
    /\ Returned /\ shape.title = "task" /\ Len(tasks) = 2
    /\ shape.blocks[1].m # shape.blocks[2].m
    /\ pc = "exit"

\* C13, second case: records of a document whose title has no "Task <number>:".
C13_WitnessUnknown == Returned /\ shape.title = "plain" /\ Len(tasks) = 2 /\ pc = "exit"

\* The records were emitted: printed in --json-output mode, written to the
\* output file otherwise.
Emitted == IF json_output_mode THEN json_out.exists ELSE fs_output.exists

\* C14: a run of the command line ends with status 0 exactly when it emitted the
\* records and with status 1 after a usage error, a missing input file, a
\* rejected document, a failed output validation or an output file that cannot
\* be written; in --json-output mode the progress and error texts are on stderr
\* only, and stdout is the JSON document after a success and empty otherwise.
C14_ExitStatusAndChannels ==
    /\ (pc = "exit") <=> (exit_code \in {0, 1})
    /\ (pc # "exit") <=> (exit_code = -1)
    /\ pc = "exit" =>
          /\ (exit_code = 0) <=> Emitted
          /\ UsageError => exit_code = 1
          /\ fs0.input = NoFile => exit_code = 1
          /\ (Validated /\ FailedChecks # {}) => exit_code = 1
          /\ (\E i \in 1..Len(stdout) : stdout[i] = "validation failed") => exit_code = 1
          /\ ~fs_writable => exit_code = 1
          /\ (json_output_mode /\ exit_code = 1) => stderr # <<>>
    /\ json_output_mode =>
          /\ stdout = IF exit_code = 0 THEN <<"json">> ELSE <<>>
          /\ Len(SelectSeq(stderr, LAMBDA l : l = "progress")) = Len(progress)

\* C14 witness: a --json-output run on a rejected document, ended with status 1,
\* nothing on stdout, the progress and the error on stderr.
C14_Witness ==
    /\ pc = "exit" /\ json_output_mode /\ Rejected /\ exit_code = 1
    /\ stdout = <<>> /\ Len(stderr) = 3

\* C14, further cases: the output file that cannot be written, the failed
\* output validation, and the success of each mode.
C14_WitnessIOError == pc = "exit" /\ raised.type = "OSError" /\ exit_code = 1
C14_WitnessOutputInvalid ==
    pc = "exit" /\ ~json_output_mode /\ Returned /\ ~Valid(tasks) /\ exit_code = 1
C14_WitnessFile == pc = "exit" /\ fs_output.exists /\ exit_code = 0
C14_WitnessJson == pc = "exit" /\ json_out.exists /\ exit_code = 0

\* The outcomes of the calls of process_markdown that have ended, the one that
\* ended last included.
AllResults ==
    results \o (IF pc \in {"returned", "raised"}
                THEN <<[doc |-> shape, outcome |-> Outcome]>> ELSE <<>>)

\* C15: two calls of process_markdown on the same document in one process end
\* the same way, with the same records or the same error, whatever was compiled
\* before or between them.
C15_Idempotent ==
    \A i, j \in 1..Len(AllResults) :
        AllResults[i].doc = AllResults[j].doc => AllResults[i].outcome = AllResults[j].outcome

\* C15 witness: a document compiled to two records, then another document
\* compiled to its record, then the first document compiled again.
C15_Witness ==
    /\ Len(AllResults) = 3
    /\ AllResults[1].doc = AllResults[3].doc /\ AllResults[2].doc # AllResults[1].doc
    /\ AllResults[2].outcome.kind = "returned"
    /\ AllResults[3].outcome.kind = "returned" /\ Len(AllResults[3].outcome.records) = 2

\* C15, second case: the same for a document that is rejected.
C15_WitnessRejected ==
    /\ Len(AllResults) = 3 /\ AllResults[1].doc = AllResults[3].doc
    /\ AllResults[2].outcome.kind = "returned" /\ AllResults[3].outcome.kind = "raised"

IsPrefix(s, t) == Len(s) <= Len(t) /\ s = SubSeq(t, 1, Len(s))

\* The notifications of a whole run on the document of shape p, in order.
StagesOf(p) ==
    <<[k |-> "Loading", i |-> 0, n |-> 0, m |-> ""],
      [k |-> "Validating", i |-> 0, n |-> 0, m |-> ""],
      [k |-> "Converting", i |-> 0, n |-> Len(p.blocks), m |-> ""]>>
    \o [j \in 1..Len(p.blocks) |->
            [k |-> "Task", i |-> j, n |-> Len(p.blocks), m |-> p.blocks[j].m]]
    \o <<[k |-> "Complete", i |-> 0, n |-> 0, m |-> ""]>>

\* C16: the notifications of a run are, in this order, "Loading task file...",
\* "Validating markdown structure...", "Converting N validation tasks...",
\* "Task i/N" for i = 1..N and "Conversion complete!"; prompt i is compiled only
\* after "Task i/N"; a run on a document that fails the input checks notifies
\* nothing after "Validating markdown structure..." and compiles no prompt.
C16_StageOrder ==
    /\ IsPrefix(progress, StagesOf(shape))
    /\ Len(prompts) = Len(SelectSeq(progress, LAMBDA n : n.k = "Task"))
    /\ Returned => progress = StagesOf(shape)
    /\ Emitted => Returned
    /\ Len(progress) > 2 => FailedChecks = {}
    /\ Rejected => progress = SubSeq(StagesOf(shape), 1, 2) /\ prompts = <<>>

\* C16 witness: a finished run with all six notifications of a document of two
\* blocks.
C16_Witness == pc = "exit" /\ Len(progress) = 6 /\ Returned /\ Emitted

\* C16, second case: a finished run on a rejected document.
C16_WitnessRejected == pc = "exit" /\ Rejected /\ Len(progress) = 2

\* C17: a call of process_markdown ends the way its document alone determines,
\* as it does without a callback: it returns for a document that passes the
\* input checks and raises the ValueError of the checks for one that does not,
\* whatever callback it is given, a callback that raises included.
C17_ObserverCannotAbort ==
    pc \in {"returned", "raised"} =>
        IF ErrorsOf(fs_input) = <<>>
        THEN pc = "returned" /\ raised = NoError
        ELSE pc = "raised" /\ raised = [type |-> "ValueError", msg |-> ErrorMsg(ErrorsOf(fs_input))]

\* C17, the case that holds: with no callback the call ends as C17 says.
C17_WithoutCallback == callback = "none" => C17_ObserverCannotAbort

\* The module names that put /path/to/ into a command: one that contains it,
\* and one that begins with path/to/ and so forms it with the directory the
\* template writes before the module.
PlaceholderModule(m) == m = "/path/to/db.py" \/ m = RelativeModule

\* C18 as stated: every record list process_markdown returns passes
\* validate_mcp_format, whatever the texts of the document are.
C18_OutputAlwaysValid == Returned => Valid(tasks)

\* C18 amended: every record list process_markdown returns for a document none
\* of whose module names puts /path/to/ into a command passes
\* validate_mcp_format.
C18_OutputValidWithoutPlaceholder ==
    (Returned /\ \A i \in 1..Len(shape.blocks) : ~PlaceholderModule(shape.blocks[i].m))
        => Valid(tasks)

\* C18 witness: two records returned, validated and written to the output file.
C18_Witness ==
    /\ Returned /\ Len(tasks) = 2 /\ Valid(tasks)
    /\ fs_output.exists /\ fs_output.data = tasks

\* C18, the refuting cases: a returned list that fails the validation because a
\* module contains /path/to/, and one because a module begins with path/to/.
C18_WitnessAbsolute ==
    Returned /\ ~Valid(tasks) /\ \A i \in 1..Len(shape.blocks) : shape.blocks[i].m # RelativeModule
C18_WitnessRelative ==
    Returned /\ ~Valid(tasks) /\ \A i \in 1..Len(shape.blocks) : shape.blocks[i].m = RelativeModule

\* The output path of the command line is its input path.
SamePath == argv = <<InputPath, InputPath>>

\* C19 as stated: in every state of every run of the command line, whatever the
\* input and output paths are, the input file has the content it had before
\* the run.
C19_InputNeverModified == fs_input = fs0.input

\* C19 amended: the input file has the content it had before the run in every
\* state of a --json-output run, of a run whose output path is not the input
\* path, and of a run that has not written its output file.
C19_InputKeptUnlessSamePath ==
    /\ ~SamePath => fs_input = fs0.input
    /\ ~fs_output.exists => fs_input = fs0.input

\* C19 witness: a finished run that wrote two records to an output file other
\* than the input file, the input file as it was.
C19_Witness ==
    /\ pc = "exit" /\ exit_code = 0 /\ argv = <<InputPath, OutputPath>>
    /\ fs_output.exists /\ Len(fs_output.data) = 2
    /\ fs_input = Render(shape)

\* C19, the refuting case: a finished run that wrote the records over its input.
C19_WitnessOverwritten ==
    pc = "exit" /\ exit_code = 0 /\ SamePath /\ fs_input = json_dump(tasks)

\* convert_tasks has returned False.
ConvertFailed == pc = "failed" \/ (pc = "exit" /\ ~json_output_mode /\ ~UsageError /\ exit_code = 1)

\* C20: when convert_tasks returns False, for a missing input file, a rejected
\* document or a failed output validation, the output file does not exist and
\* the output directory is as it was before the run.
C20_FailedRunLeavesNoTrace ==
    ConvertFailed => ~fs_output.exists /\ fs_outdir = fs0.outdir

\* C20, the part that holds: a failed run writes no output file and leaves the
\* input file alone, and a run without its input file creates no directory.
C20_FailedRunWritesNoFile ==
    ConvertFailed =>
        /\ ~fs_output.exists /\ fs_input = fs0.input
        /\ fs0.input = NoFile => fs_outdir = fs0.outdir

\* C20, the refuting case: a rejected document, and a new output directory.
C20_WitnessDirectory == ConvertFailed /\ Rejected /\ fs_outdir /\ ~fs0.outdir

====
